---- MODULE Spec2Model ----
(***************************************************************************)
(* Model of src/pulse_counter.c: a GPIO pulse counter with a fixed table   *)
(* of MAX_PINS slots, a background epoll thread (event_loop) that turns    *)
(* edge events into counter increments, and the Python-facing operations   *)
(* register_pin, start, stop, get_count, reset_count, trigger_interrupt,   *)
(* check_interrupts and cleanup.                                           *)
(*                                                                         *)
(* A host operation runs under the interpreter lock and is one atomic      *)
(* action, except where the code releases the lock (Py_BEGIN_ALLOW_THREADS *)
(* in py_start, py_stop and py_cleanup): there the operation is split and  *)
(* the acquisition thread and the hardware interleave with it.             *)
(***************************************************************************)
EXTENDS Integers, Sequences, FiniteSets, TLC

(***************************************************************************)
(* Program constants and model bounds                                      *)
(***************************************************************************)
\* #define MAX_PINS 2
MAX_PINS == 2
\* capacity of the edge event buffer and of one read (lines 39 and 55)
EVENT_BUF == 32
\* descriptor values handed out by gpiod_request_get_fd and epoll_create1
ReqFd == 5
EpFd == 6

\* pin identifiers the host passes; -1 is the table's "free" marker
Pins == {-1, 17, 27, 22}
\* the pin identifiers passed in the specifications that start the engine
SomePins == {-1, 17, 27}
\* the count argument of trigger_interrupt
TriggerCounts == {0, 1}
\* host threads of the interpreter; SeqHosts is the single caller of Spec
Hosts == {1, 2}
SeqHosts == {1}

\* bounds of the model
MaxThreads == 2     \* acquisition threads that exist at the same time
MaxQueue == 2       \* edge events the kernel holds for the line request
MaxEvents == 2      \* events injected per pin between two resets

Slots == 0 .. (MAX_PINS - 1)
Threads == 1 .. MaxThreads
HandleKinds == {"chip", "request", "epoll"}

VARIABLES
    pin_offsets,    \* static int pin_offsets[MAX_PINS]
    pulse_counts,   \* static atomic_uint_fast64_t pulse_counts[MAX_PINS]
    num_registered, \* static int num_registered
    chip,           \* static struct gpiod_chip *chip: "NULL" or "open"
    request,        \* static struct gpiod_request *request: "NULL" or "open"
    request_fd,     \* static int request_fd
    epoll_fd,       \* static int epoll_fd
    event_thread,   \* static pthread_t event_thread (0: never created)
    thread_running, \* static int thread_running
    epoll_watch,    \* the descriptor registered in the epoll instance (-1: none)
    req_lines,      \* the line offsets the open request was made for
    queue,          \* edge events the kernel holds for the request, oldest first
    leaked,         \* kinds of handle that were opened and lost without release
    lost_lines,     \* the line offsets that lost line requests still hold
    lpc,            \* position of each acquisition thread in event_loop
    buf,            \* each thread's edge event buffer: events read, not yet counted
    hpc,            \* position of each host thread inside py_start/py_stop/py_cleanup
    hjoin,          \* the thread a host is joining
    hrc,            \* rc of py_start
    pre,            \* registry and counters at the entry of the host's split operation
    injected,       \* per pin: events delivered or bumped since its last reset
    fault,          \* "raised" by a failure in the loop until a call returns to the host
    engaged,        \* start() returned success and no stop()/cleanup() was called since
    regLog,         \* register calls since the registry was last empty
    last            \* the step just taken and what it returned

vars == <<pin_offsets, pulse_counts, num_registered, chip, request, request_fd,
          epoll_fd, event_thread, thread_running, epoll_watch, req_lines, queue,
          leaked, lost_lines, lpc, buf, hpc, hjoin, hrc, pre, injected, fault,
          engaged, regLog, last>>

registry == <<pin_offsets, pulse_counts, num_registered>>
handles == <<chip, request, request_fd, epoll_fd, epoll_watch, req_lines, queue, leaked,
             lost_lines>>
threadv == <<event_thread, thread_running, lpc, buf>>
hostv == <<hpc, hjoin, hrc, pre>>

(***************************************************************************)
(* Helpers                                                                 *)
(***************************************************************************)
Min(a, b) == IF a < b THEN a ELSE b

RECURSIVE CountIn(_, _)
CountIn(p, s) ==
    IF s = <<>> THEN 0
    ELSE (IF Head(s) = p THEN 1 ELSE 0) + CountIn(p, Tail(s))

RECURSIVE CountInBufs(_, _)
CountInBufs(p, T) ==
    IF T = {} THEN 0
    ELSE LET t == CHOOSE x \in T : TRUE
         IN  CountIn(p, buf[t]) + CountInBufs(p, T \ {t})

\* events of pin p that are delivered and not yet counted
Pending(p) == CountIn(p, queue) + CountInBufs(p, Threads)

NoSnap == [offsets |-> [i \in Slots |-> -1], counts |-> [i \in Slots |-> 0], num |-> 0]
Snap == [offsets |-> pin_offsets, counts |-> pulse_counts, num |-> num_registered]

\* what a step returned: val is the result (a slot, a count), err names the error raised
Step(op, h, arg, val, err) == [op |-> op, h |-> h, arg |-> arg, val |-> val, err |-> err]

\* a step that returns nothing to a caller
Quiet == Step("", 0, 0, 0, "")

(***************************************************************************)
(* Pin registry: find_slot, register_pin_internal                          *)
(***************************************************************************)
\* the slots of table offs that hold pin
SlotsOf(offs, pin) == {i \in Slots : offs[i] = pin}

\* lowest member of a non-empty set of slots
Lowest(S) == CHOOSE i \in S : \A j \in S : i <= j

\* static int find_slot(int pin), on the table offs
find_slot_in(offs, pin) ==
    IF SlotsOf(offs, pin) = {} THEN -1 ELSE Lowest(SlotsOf(offs, pin))

find_slot(pin) == find_slot_in(pin_offsets, pin)

\* register_pin_internal storing 0 in the counter of the slot a pin already holds
register_pin_internal_rezero(pin) ==
    LET same == [ret |-> -1, offsets |-> pin_offsets, counts |-> pulse_counts,
                 num |-> num_registered]
    IN  IF num_registered >= MAX_PINS THEN same
        ELSE IF find_slot(pin) >= 0
        THEN [same EXCEPT !.ret = find_slot(pin),
                          !.counts = [pulse_counts EXCEPT ![find_slot(pin)] = 0]]
        ELSE IF SlotsOf(pin_offsets, -1) = {} THEN same
        ELSE LET i == Lowest(SlotsOf(pin_offsets, -1))
             IN  [ret |-> i,
                  offsets |-> [pin_offsets EXCEPT ![i] = pin],
                  counts |-> [pulse_counts EXCEPT ![i] = 0],
                  num |-> num_registered + 1]

\* register_pin_internal taking the last free slot instead of the first
register_pin_internal_last(pin) ==
    LET same == [ret |-> -1, offsets |-> pin_offsets, counts |-> pulse_counts,
                 num |-> num_registered]
    IN  IF num_registered >= MAX_PINS THEN same
        ELSE IF find_slot(pin) >= 0 THEN [same EXCEPT !.ret = find_slot(pin)]
        ELSE IF SlotsOf(pin_offsets, -1) = {} THEN same
        ELSE LET F == SlotsOf(pin_offsets, -1)
                 i == CHOOSE x \in F : \A y \in F : y <= x
             IN  [ret |-> i,
                  offsets |-> [pin_offsets EXCEPT ![i] = pin],
                  counts |-> [pulse_counts EXCEPT ![i] = 0],
                  num |-> num_registered + 1]

\* static int register_pin_internal(int pin): the value returned and the
\* table, counters and num_registered it leaves
register_pin_internal(pin) ==
    LET same == [ret |-> -1, offsets |-> pin_offsets, counts |-> pulse_counts,
                 num |-> num_registered]
    IN  IF num_registered >= MAX_PINS THEN same
        ELSE IF find_slot(pin) >= 0 THEN [same EXCEPT !.ret = find_slot(pin)]
        ELSE IF SlotsOf(pin_offsets, -1) = {} THEN same
        ELSE LET i == Lowest(SlotsOf(pin_offsets, -1))
             IN  [ret |-> i,
                  offsets |-> [pin_offsets EXCEPT ![i] = pin],
                  counts |-> [pulse_counts EXCEPT ![i] = 0],
                  num |-> num_registered + 1]

\* the log of register calls made since the registry was last empty
Logged(log, pin, ret) ==
    IF Len(log) <= MAX_PINS THEN Append(log, [pin |-> pin, slot |-> ret]) ELSE log

HostIdle(h) == hpc[h] = "idle"

\* static PyObject* py_register_pin(self, args)
py_register_pin(h, pin) ==
    /\ HostIdle(h)
    /\ IF thread_running # 0
       THEN /\ last' = Step("register", h, pin, -1, "running")
            /\ UNCHANGED <<registry, injected>>
       ELSE LET r == register_pin_internal(pin)
            IN  /\ pin_offsets' = r.offsets
                /\ pulse_counts' = r.counts
                /\ num_registered' = r.num
                /\ injected' = IF r.num # num_registered
                               THEN [injected EXCEPT ![pin] = 0] ELSE injected
                /\ last' = Step("register", h, pin, r.ret,
                                IF r.ret < 0 THEN "capacity" ELSE "")
    /\ fault' = "none"
    /\ UNCHANGED <<handles, threadv, hostv, engaged>>

\* a register call of the specifications that start the engine: not logged
Register(h, pin) == py_register_pin(h, pin) /\ UNCHANGED regLog

\* a register call of the registry specification: logged
LoggedRegister(h, pin) ==
    /\ py_register_pin(h, pin)
    /\ regLog' = Logged(regLog, pin, last'.val)

(***************************************************************************)
(* Hardware handles: build_request, release_request                        *)
(***************************************************************************)
\* the calls of build_request that can fail, in program order; "none": all succeed
FailPoints == <<"chip_open", "line_config", "request_lines", "get_fd",
                "epoll_create", "epoll_ctl", "none">>

Stage(fp) == CHOOSE k \in 1 .. Len(FailPoints) : FailPoints[k] = fp

\* the ghost count of injected events once the events in q are thrown away
Dropped(inj, q) == [p \in Pins |-> inj[p] - CountIn(p, q)]

\* the lines a request is made for: the first num_registered table entries
RequestedLines == {pin_offsets[i] : i \in {j \in Slots : j < num_registered}}

\* the lines that a line request holds: the kernel grants a line to one
\* request at a time, gpiod_chip_request_lines fails for a line that is held
HeldLines == (IF request = "open" THEN req_lines ELSE {}) \cup lost_lines

\* static int build_request(void), failing at call fp0: the handles it leaves
\* and the value it returns.  A handle still held when its variable is
\* assigned again stays open with nothing referring to it: it is leaked.
\* When a line to request is held, the call of line 107 is the latest that
\* can fail.
build_request(fp0) ==
    IF num_registered <= 0
    THEN [rc |-> -1, chip |-> chip, request |-> request, request_fd |-> request_fd,
          epoll_fd |-> epoll_fd, epoll_watch |-> epoll_watch, req_lines |-> req_lines,
          queue |-> queue, leaked |-> leaked, lost_lines |-> lost_lines,
          injected |-> injected]
    ELSE LET busy == RequestedLines \cap HeldLines # {}
             fp == IF busy /\ Stage(fp0) > Stage("request_lines")
                   THEN "request_lines" ELSE fp0
             k == Stage(fp)
             newreq == k >= Stage("request_lines")
             newep == k >= Stage("epoll_create")
         IN  [rc |-> IF fp = "none" THEN 0 ELSE -1,
              chip |-> IF fp = "chip_open" THEN "NULL" ELSE "open",
              request |-> IF ~newreq THEN request
                          ELSE IF fp = "request_lines" THEN "NULL" ELSE "open",
              request_fd |-> IF k < Stage("get_fd") THEN request_fd
                             ELSE IF fp = "get_fd" THEN -1 ELSE ReqFd,
              epoll_fd |-> IF ~newep THEN epoll_fd
                           ELSE IF fp = "epoll_create" THEN -1 ELSE EpFd,
              epoll_watch |-> IF ~newep THEN epoll_watch
                              ELSE IF fp = "none" THEN ReqFd ELSE -1,
              req_lines |-> IF ~newreq THEN req_lines
                            ELSE IF fp = "request_lines" THEN {} ELSE RequestedLines,
              queue |-> IF newreq THEN <<>> ELSE queue,
              injected |-> IF newreq THEN Dropped(injected, queue) ELSE injected,
              lost_lines |-> IF newreq /\ request = "open"
                             THEN lost_lines \cup req_lines ELSE lost_lines,
              leaked |-> leaked
                         \cup (IF chip = "open" THEN {"chip"} ELSE {})
                         \cup (IF newreq /\ request = "open" THEN {"request"} ELSE {})
                         \cup (IF newep /\ epoll_fd >= 0 THEN {"epoll"} ELSE {})]

\* static void release_request(void)
release_request ==
    /\ epoll_fd' = -1
    /\ epoll_watch' = -1
    /\ request_fd' = -1
    /\ request' = "NULL"
    /\ chip' = "NULL"
    /\ req_lines' = {}
    /\ queue' = <<>>
    /\ UNCHANGED <<leaked, lost_lines>>

\* no handle is open: none held in the variables, none leaked
NoHandleOpen ==
    /\ chip = "NULL"
    /\ request = "NULL"
    /\ request_fd = -1
    /\ epoll_fd = -1
    /\ leaked = {}

(***************************************************************************)
(* Lifecycle: py_start, py_stop, py_cleanup                                *)
(***************************************************************************)
\* thread slots pthread_create can use: never created, or finished, and not
\* the target of a join in progress
FreeThreads ==
    {t \in Threads : /\ lpc[t] \in {"none", "exited"}
                     /\ \A h \in Hosts : ~(hpc[h] \in {"stop_join", "cleanup_join"} /\ hjoin[h] = t)}

\* py_start without the test of num_registered (lines 168-171)
StartEnter_nopins(h) ==
    /\ HostIdle(h)
    /\ IF thread_running # 0
       THEN /\ last' = Step("start", h, 1, 0, "")
            /\ engaged' = TRUE
            /\ UNCHANGED hostv
       ELSE /\ hpc' = [hpc EXCEPT ![h] = "start_build"]
            /\ pre' = [pre EXCEPT ![h] = Snap]
            /\ last' = Quiet
            /\ UNCHANGED <<hjoin, hrc, engaged>>
    /\ fault' = IF hpc'[h] = "idle" THEN "none" ELSE fault
    /\ UNCHANGED <<registry, handles, threadv, injected, regLog>>

\* py_start without the early return of line 167
StartEnter_again(h) ==
    /\ HostIdle(h)
    /\ IF num_registered <= 0
       THEN /\ last' = Step("start", h, 0, -1, "no_pins")
            /\ UNCHANGED <<hostv, engaged>>
       ELSE /\ hpc' = [hpc EXCEPT ![h] = "start_build"]
            /\ pre' = [pre EXCEPT ![h] = Snap]
            /\ last' = Quiet
            /\ UNCHANGED <<hjoin, hrc, engaged>>
    /\ fault' = IF hpc'[h] = "idle" THEN "none" ELSE fault
    /\ UNCHANGED <<registry, handles, threadv, injected, regLog>>

\* py_start, lines 166-171: the checks made before the lock is released
StartEnter(h) ==
    /\ HostIdle(h)
    /\ IF thread_running # 0
       THEN /\ last' = Step("start", h, 1, 0, "")
            /\ engaged' = TRUE
            /\ UNCHANGED hostv
       ELSE IF num_registered <= 0
       THEN /\ last' = Step("start", h, 0, -1, "no_pins")
            /\ UNCHANGED <<hostv, engaged>>
       ELSE /\ hpc' = [hpc EXCEPT ![h] = "start_build"]
            /\ pre' = [pre EXCEPT ![h] = Snap]
            /\ last' = Quiet
            /\ UNCHANGED <<hjoin, hrc, engaged>>
    /\ fault' = IF hpc'[h] = "idle" THEN "none" ELSE fault
    /\ UNCHANGED <<registry, handles, threadv, injected, regLog>>

\* py_start, line 174: rc = build_request(), the lock released
StartBuild(h) ==
    /\ hpc[h] = "start_build"
    /\ \E k \in 1 .. Len(FailPoints) :
          LET r == build_request(FailPoints[k])
          IN  /\ chip' = r.chip
              /\ request' = r.request
              /\ request_fd' = r.request_fd
              /\ epoll_fd' = r.epoll_fd
              /\ epoll_watch' = r.epoll_watch
              /\ req_lines' = r.req_lines
              /\ queue' = r.queue
              /\ leaked' = r.leaked
              /\ lost_lines' = r.lost_lines
              /\ injected' = r.injected
              /\ hrc' = [hrc EXCEPT ![h] = r.rc]
              /\ hpc' = [hpc EXCEPT ![h] = IF r.rc = 0 THEN "start_spawn" ELSE "start_ret"]
              /\ last' = Quiet
    /\ UNCHANGED <<registry, threadv, hjoin, pre, fault, engaged, regLog>>

\* py_start, lines 176-177: thread_running = 1 and pthread_create succeeds
StartSpawn(h) ==
    /\ hpc[h] = "start_spawn"
    /\ FreeThreads # {}
    /\ LET t == CHOOSE x \in FreeThreads : \A y \in FreeThreads : x <= y
       IN  /\ thread_running' = 1
           /\ event_thread' = t
           /\ lpc' = [lpc EXCEPT ![t] = "alloc"]
           /\ last' = Quiet
    /\ hpc' = [hpc EXCEPT ![h] = "start_ret"]
    /\ fault' = "none"
    /\ UNCHANGED <<registry, handles, buf, hjoin, hrc, pre, injected, engaged, regLog>>

\* py_start, lines 176-181: pthread_create fails
StartSpawnFail(h) ==
    /\ hpc[h] = "start_spawn"
    /\ thread_running' = 0
    /\ release_request
    /\ injected' = Dropped(injected, queue)
    /\ hrc' = [hrc EXCEPT ![h] = -1]
    /\ hpc' = [hpc EXCEPT ![h] = "start_ret"]
    /\ last' = Quiet
    /\ UNCHANGED <<registry, event_thread, lpc, buf, hjoin, pre, fault, engaged, regLog>>

\* py_start, lines 183-188: the lock is taken again and the call returns
StartReturn(h) ==
    /\ hpc[h] = "start_ret"
    /\ hpc' = [hpc EXCEPT ![h] = "idle"]
    /\ pre' = [pre EXCEPT ![h] = NoSnap]
    /\ hrc' = [hrc EXCEPT ![h] = 0]
    /\ last' = IF hrc[h] # 0 THEN Step("start", h, 0, -1, "start_failed")
                             ELSE Step("start", h, 0, 0, "")
    /\ engaged' = IF hrc[h] = 0 THEN TRUE ELSE engaged
    /\ fault' = "none"
    /\ UNCHANGED <<registry, handles, threadv, hjoin, injected, regLog>>

\* py_stop without the early return of line 192 doing nothing: the handles
\* are released on every call
StopEnter_release(h) ==
    /\ HostIdle(h)
    /\ thread_running = 0
    /\ engaged' = FALSE
    /\ release_request
    /\ injected' = Dropped(injected, queue)
    /\ last' = Step("stop", h, 0, 0, "")
    /\ fault' = "none"
    /\ UNCHANGED <<registry, threadv, hostv, regLog>>

\* py_stop, lines 192-193
StopEnter(h) ==
    /\ HostIdle(h)
    /\ engaged' = FALSE
    /\ IF thread_running = 0
       THEN /\ last' = Step("stop", h, 0, 0, "")
            /\ fault' = "none"
            /\ UNCHANGED <<threadv, hostv>>
       ELSE /\ thread_running' = 0
            /\ hjoin' = [hjoin EXCEPT ![h] = event_thread]
            /\ hpc' = [hpc EXCEPT ![h] = "stop_join"]
            /\ pre' = [pre EXCEPT ![h] = Snap]
            /\ last' = Quiet
            /\ UNCHANGED <<event_thread, lpc, buf, hrc, fault>>
    /\ UNCHANGED <<registry, handles, injected, regLog>>

\* pthread_join(event_thread, NULL) returns: the thread has finished
Joined(h) ==
    /\ hjoin[h] \in Threads
    /\ lpc[hjoin[h]] = "exited"

\* py_stop, line 196
StopJoin(h) ==
    /\ hpc[h] = "stop_join"
    /\ Joined(h)
    /\ lpc' = [lpc EXCEPT ![hjoin[h]] = "none"]
    /\ hpc' = [hpc EXCEPT ![h] = "stop_release"]
    /\ last' = Quiet
    /\ UNCHANGED <<registry, handles, event_thread, thread_running, buf, hjoin, hrc,
                   pre, injected, fault, engaged, regLog>>

\* py_stop clearing the table when it releases the handles
StopRelease_clear(h) ==
    /\ hpc[h] = "stop_release"
    /\ release_request
    /\ injected' = [p \in Pins |-> 0]
    /\ pin_offsets' = [i \in Slots |-> -1]
    /\ pulse_counts' = [i \in Slots |-> 0]
    /\ num_registered' = 0
    /\ hpc' = [hpc EXCEPT ![h] = "idle"]
    /\ hjoin' = [hjoin EXCEPT ![h] = 0]
    /\ pre' = [pre EXCEPT ![h] = NoSnap]
    /\ last' = Step("stop", h, 1, 0, "")
    /\ fault' = "none"
    /\ UNCHANGED <<threadv, hrc, engaged, regLog>>

\* py_stop, lines 197-199
StopRelease(h) ==
    /\ hpc[h] = "stop_release"
    /\ release_request
    /\ injected' = Dropped(injected, queue)
    /\ hpc' = [hpc EXCEPT ![h] = "idle"]
    /\ hjoin' = [hjoin EXCEPT ![h] = 0]
    /\ pre' = [pre EXCEPT ![h] = NoSnap]
    /\ last' = Step("stop", h, 1, 0, "")
    /\ fault' = "none"
    /\ UNCHANGED <<registry, threadv, hrc, engaged, regLog>>

\* py_cleanup, lines 256-262: release the handles, clear the table and counters
CleanupRest(h, wasRunning) ==
    /\ release_request
    /\ pin_offsets' = [i \in Slots |-> -1]
    /\ pulse_counts' = [i \in Slots |-> 0]
    /\ num_registered' = 0
    /\ injected' = [p \in Pins |-> 0]
    /\ regLog' = <<>>
    /\ fault' = "none"
    /\ last' = Step("cleanup", h, wasRunning, 0, "")

\* py_cleanup, lines 250-251 (Running) or the whole call (not Running)
CleanupEnter(h) ==
    /\ HostIdle(h)
    /\ engaged' = FALSE
    /\ IF thread_running # 0
       THEN /\ thread_running' = 0
            /\ hjoin' = [hjoin EXCEPT ![h] = event_thread]
            /\ hpc' = [hpc EXCEPT ![h] = "cleanup_join"]
            /\ last' = Quiet
            /\ UNCHANGED <<registry, handles, event_thread, lpc, buf, hrc, pre,
                           injected, fault, regLog>>
       ELSE /\ CleanupRest(h, 0)
            /\ UNCHANGED <<threadv, hostv>>

\* py_cleanup, line 253
CleanupJoin(h) ==
    /\ hpc[h] = "cleanup_join"
    /\ Joined(h)
    /\ lpc' = [lpc EXCEPT ![hjoin[h]] = "none"]
    /\ hpc' = [hpc EXCEPT ![h] = "cleanup_rest"]
    /\ last' = Quiet
    /\ UNCHANGED <<registry, handles, event_thread, thread_running, buf, hjoin, hrc,
                   pre, injected, fault, engaged, regLog>>

\* py_cleanup, lines 254-262: the lock is taken again
CleanupFinish(h) ==
    /\ hpc[h] = "cleanup_rest"
    /\ CleanupRest(h, 1)
    /\ hpc' = [hpc EXCEPT ![h] = "idle"]
    /\ hjoin' = [hjoin EXCEPT ![h] = 0]
    /\ UNCHANGED <<threadv, hrc, pre, engaged>>

(***************************************************************************)
(* Counters: py_get_count, py_reset_count, py_trigger_interrupt            *)
(***************************************************************************)
\* the value py_get_count returns for pin
get_count(pin) == IF find_slot(pin) < 0 THEN 0 ELSE pulse_counts[find_slot(pin)]

\* static PyObject* py_get_count(self, args)
py_get_count(h, pin) ==
    /\ HostIdle(h)
    /\ last' = Step("get_count", h, pin, get_count(pin), "")
    /\ fault' = "none"
    /\ UNCHANGED <<registry, handles, threadv, hostv, injected, engaged, regLog>>

\* static PyObject* py_reset_count(self, args)
py_reset_count(h, pin) ==
    /\ HostIdle(h)
    /\ IF find_slot(pin) >= 0
       THEN /\ pulse_counts' = [pulse_counts EXCEPT ![find_slot(pin)] = 0]
            /\ injected' = [injected EXCEPT ![pin] = Pending(pin)]
       ELSE UNCHANGED <<pulse_counts, injected>>
    /\ last' = Step("reset_count", h, pin, 0, "")
    /\ fault' = "none"
    /\ UNCHANGED <<pin_offsets, num_registered, handles, threadv, hostv, engaged, regLog>>

\* static PyObject* py_trigger_interrupt(self, args)
py_trigger_interrupt(h, pin, count) ==
    /\ HostIdle(h)
    /\ IF find_slot(pin) < 0
       THEN /\ last' = Step("trigger_interrupt", h, 0, -1, "not_registered")
            /\ UNCHANGED <<pulse_counts, injected>>
       ELSE /\ count > 0 => /\ pulse_counts[find_slot(pin)] + count <= MaxEvents
                            /\ injected[pin] + count <= MaxEvents
            /\ pulse_counts' = IF count > 0
                               THEN [pulse_counts EXCEPT ![find_slot(pin)] = @ + count]
                               ELSE pulse_counts
            /\ injected' = IF count > 0 /\ pin # -1
                           THEN [injected EXCEPT ![pin] = @ + count] ELSE injected
            /\ last' = Step("trigger_interrupt", h, 0, 0, "")
    /\ fault' = "none"
    /\ UNCHANGED <<pin_offsets, num_registered, handles, threadv, hostv, engaged, regLog>>

\* static PyObject* py_check_interrupts(self, args): a no-op
py_check_interrupts(h) ==
    /\ HostIdle(h)
    /\ last' = Step("check_interrupts", h, 0, 0, "")
    /\ fault' = "none"
    /\ UNCHANGED <<registry, handles, threadv, hostv, injected, engaged, regLog>>

(***************************************************************************)
(* The acquisition thread: event_loop                                      *)
(***************************************************************************)
\* line 39 succeeds: the event buffer is allocated
LoopAlloc(t) ==
    /\ lpc[t] = "alloc"
    /\ lpc' = [lpc EXCEPT ![t] = "while"]
    /\ last' = Quiet
    /\ UNCHANGED <<registry, handles, event_thread, thread_running, buf, hostv,
                   injected, fault, engaged, regLog>>

\* lines 39-43: the allocation fails, the thread clears thread_running and returns
LoopAllocFail(t) ==
    /\ lpc[t] = "alloc"
    /\ thread_running' = 0
    /\ lpc' = [lpc EXCEPT ![t] = "exited"]
    /\ fault' = "raised"
    /\ last' = Quiet
    /\ UNCHANGED <<registry, handles, event_thread, buf, hostv, injected, engaged, regLog>>

\* line 46: while (thread_running); lines 70-71 when it is cleared
LoopWhile(t) ==
    /\ lpc[t] = "while"
    /\ lpc' = [lpc EXCEPT ![t] = IF thread_running # 0 THEN "wait" ELSE "exited"]
    /\ last' = Quiet
    /\ UNCHANGED <<registry, handles, event_thread, thread_running, buf, hostv,
                   injected, fault, engaged, regLog>>

\* the request descriptor is watched by the epoll instance and has events to read
Readable == epoll_fd >= 0 /\ epoll_watch >= 0 /\ request = "open" /\ queue # <<>>

\* line 47: epoll_wait returns 1, the request descriptor is readable
LoopWaitReady(t) ==
    /\ lpc[t] = "wait"
    /\ Readable
    /\ lpc' = [lpc EXCEPT ![t] = "woke_ready"]
    /\ last' = Quiet
    /\ UNCHANGED <<registry, handles, event_thread, thread_running, buf, hostv,
                   injected, fault, engaged, regLog>>

\* line 47: epoll_wait returns 0 after its 500 ms, nothing was readable
LoopWaitTimeout(t) ==
    /\ lpc[t] = "wait"
    /\ ~Readable
    /\ lpc' = [lpc EXCEPT ![t] = "woke_idle"]
    /\ last' = Quiet
    /\ UNCHANGED <<registry, handles, event_thread, thread_running, buf, hostv,
                   injected, fault, engaged, regLog>>

\* line 47: epoll_wait fails and returns -1
LoopWaitError(t) ==
    /\ lpc[t] = "wait"
    /\ lpc' = [lpc EXCEPT ![t] = "woke_idle"]
    /\ fault' = "raised"
    /\ last' = Quiet
    /\ UNCHANGED <<registry, handles, event_thread, thread_running, buf, hostv,
                   injected, engaged, regLog>>

\* lines 48-52: break when stopped, continue when n <= 0, else read the events
LoopCheck(t) ==
    /\ lpc[t] \in {"woke_ready", "woke_idle"}
    /\ lpc' = [lpc EXCEPT ![t] =
                  IF thread_running = 0 THEN "exited"
                  ELSE IF lpc[t] = "woke_idle" THEN "while"
                  ELSE IF request_fd = ReqFd THEN "read" ELSE "while"]
    /\ last' = Quiet
    /\ UNCHANGED <<registry, handles, event_thread, thread_running, buf, hostv,
                   injected, fault, engaged, regLog>>

\* line 55: gpiod_request_read_edge_events returns readn > 0 events, at most
\* EVENT_BUF.  With no event queued the call blocks: no step is enabled.
LoopRead(t) ==
    /\ lpc[t] = "read"
    /\ request = "open"
    /\ queue # <<>>
    /\ LET readn == Min(EVENT_BUF, Len(queue))
       IN  /\ buf' = [buf EXCEPT ![t] = SubSeq(queue, 1, readn)]
           /\ queue' = SubSeq(queue, readn + 1, Len(queue))
           /\ last' = Quiet
    /\ lpc' = [lpc EXCEPT ![t] = "count"]
    /\ UNCHANGED <<registry, chip, request, request_fd, epoll_fd, epoll_watch, req_lines,
                   leaked, lost_lines, event_thread, thread_running, hostv, injected,
                   fault, engaged, regLog>>

\* lines 55-56: the read fails (readn <= 0): break out of the do-while
LoopReadError(t) ==
    /\ lpc[t] = "read"
    /\ lpc' = [lpc EXCEPT ![t] = "while"]
    /\ fault' = "raised"
    /\ last' = Quiet
    /\ UNCHANGED <<registry, handles, event_thread, thread_running, buf, hostv,
                   injected, engaged, regLog>>

\* CountEvent with the slot lookup left out: every event lands in slot 0
CountEvent_slot0(counts, off) == [counts EXCEPT ![0] = @ + 1]

\* CountEvent applying the increment of an event twice
CountEvent_twice(counts, off) ==
    IF find_slot(off) >= 0
    THEN [counts EXCEPT ![find_slot(off)] = @ + 2]
    ELSE counts

\* lines 60-64: the counters after the event of line offset off is counted
CountEvent(counts, off) ==
    IF find_slot(off) >= 0
    THEN [counts EXCEPT ![find_slot(off)] = @ + 1]
    ELSE counts

\* lines 57-66: one event of the buffer is counted; after the last one the
\* do-while reads again (readn > 0)
LoopCount(t) ==
    /\ lpc[t] = "count"
    /\ buf[t] # <<>>
    /\ pulse_counts' = CountEvent(pulse_counts, Head(buf[t]))
    /\ buf' = [buf EXCEPT ![t] = Tail(buf[t])]
    /\ lpc' = [lpc EXCEPT ![t] = IF Tail(buf[t]) = <<>> THEN "read" ELSE "count"]
    /\ last' = Quiet
    /\ UNCHANGED <<pin_offsets, num_registered, handles, event_thread, thread_running,
                   hostv, injected, fault, engaged, regLog>>

(***************************************************************************)
(* The hardware: a falling edge on a requested line.  Edges are modelled   *)
(* while a loop exists, or is being created, that can read the request:    *)
(* the events of a request that no loop reads are thrown away unread when  *)
(* the request is released or replaced.                                    *)
(***************************************************************************)
Listening ==
    \/ \E t \in Threads : lpc[t] \notin {"none", "exited"}
    \/ \E h \in Hosts : hpc[h] = "start_spawn"

Deliver(p) ==
    /\ request = "open"
    /\ Listening
    /\ p \in req_lines
    /\ Len(queue) < MaxQueue
    /\ injected[p] < MaxEvents
    /\ queue' = Append(queue, p)
    /\ injected' = [injected EXCEPT ![p] = @ + 1]
    /\ last' = Quiet
    /\ UNCHANGED <<registry, chip, request, request_fd, epoll_fd, epoll_watch, req_lines,
                   leaked, lost_lines, threadv, hostv, fault, engaged, regLog>>

(***************************************************************************)
(* Specification                                                           *)
(***************************************************************************)
\* the state after PyInit_pulse_counter
Init ==
    /\ pin_offsets = [i \in Slots |-> -1]
    /\ pulse_counts = [i \in Slots |-> 0]
    /\ num_registered = 0
    /\ chip = "NULL"
    /\ request = "NULL"
    /\ request_fd = -1
    /\ epoll_fd = -1
    /\ event_thread = 0
    /\ thread_running = 0
    /\ epoll_watch = -1
    /\ req_lines = {}
    /\ queue = <<>>
    /\ leaked = {}
    /\ lost_lines = {}
    /\ lpc = [t \in Threads |-> "none"]
    /\ buf = [t \in Threads |-> <<>>]
    /\ hpc = [h \in Hosts |-> "idle"]
    /\ hjoin = [h \in Hosts |-> 0]
    /\ hrc = [h \in Hosts |-> 0]
    /\ pre = [h \in Hosts |-> NoSnap]
    /\ injected = [p \in Pins |-> 0]
    /\ fault = "none"
    /\ engaged = FALSE
    /\ regLog = <<>>
    /\ last = Quiet

\* one step of host thread h
HostNext(h) ==
    \/ \E pin \in SomePins : Register(h, pin)
    \/ StartEnter(h)
    \/ StartBuild(h)
    \/ StartSpawn(h)
    \/ StartSpawnFail(h)
    \/ StartReturn(h)
    \/ StopEnter(h)
    \/ StopJoin(h)
    \/ StopRelease(h)
    \/ CleanupEnter(h)
    \/ CleanupJoin(h)
    \/ CleanupFinish(h)
    \/ \E pin \in SomePins : py_get_count(h, pin)
    \/ \E pin \in SomePins : py_reset_count(h, pin)
    \/ \E pin \in SomePins, count \in TriggerCounts : py_trigger_interrupt(h, pin, count)
    \/ py_check_interrupts(h)

\* one step of acquisition thread t
LoopNext(t) ==
    \/ LoopAlloc(t)
    \/ LoopAllocFail(t)
    \/ LoopWhile(t)
    \/ LoopWaitReady(t)
    \/ LoopWaitTimeout(t)
    \/ LoopWaitError(t)
    \/ LoopCheck(t)
    \/ LoopRead(t)
    \/ LoopReadError(t)
    \/ LoopCount(t)

\* one host thread calls the module: the calls do not overlap
Next ==
    \/ \E h \in SeqHosts : HostNext(h)
    \/ \E t \in Threads : LoopNext(t)
    \/ \E p \in Pins : Deliver(p)

Spec == Init /\ [][Next]_vars

\* the steps of the acquisition thread that the scheduler runs when they
\* are possible: a failing allocation, wait or read is not among them
LoopProgress(t) ==
    \/ LoopAlloc(t)
    \/ LoopWhile(t)
    \/ LoopWaitReady(t)
    \/ LoopWaitTimeout(t)
    \/ LoopCheck(t)
    \/ LoopRead(t)
    \/ LoopCount(t)

\* the steps of a host call that has released the lock: it runs on
HostProgress(h) ==
    \/ StartBuild(h)
    \/ StartSpawn(h)
    \/ StartSpawnFail(h)
    \/ StartReturn(h)
    \/ StopJoin(h)
    \/ StopRelease(h)
    \/ CleanupJoin(h)
    \/ CleanupFinish(h)

\* every thread that can run does run
FairSpec ==
    /\ Spec
    /\ \A t \in Threads : WF_vars(LoopProgress(t))
    /\ \A h \in SeqHosts : WF_vars(HostProgress(h))

\* the registry alone: register calls with their log, lookups and cleanup
RegNext ==
    \E h \in SeqHosts :
        \/ \E pin \in Pins : LoggedRegister(h, pin)
        \/ \E pin \in Pins : py_get_count(h, pin)
        \/ CleanupEnter(h)

SpecReg == Init /\ [][RegNext]_vars

(***************************************************************************)
(* Sanity                                                                  *)
(***************************************************************************)
TypeOK ==
    /\ pin_offsets \in [Slots -> Pins]
    /\ pulse_counts \in [Slots -> 0 .. MaxEvents]
    /\ num_registered \in 0 .. MAX_PINS
    /\ chip \in {"NULL", "open"}
    /\ request \in {"NULL", "open"}
    /\ request_fd \in {-1, ReqFd}
    /\ epoll_fd \in {-1, EpFd}
    /\ epoll_watch \in {-1, ReqFd}
    /\ event_thread \in {0} \cup Threads
    /\ thread_running \in {0, 1}
    /\ req_lines \subseteq Pins
    /\ Len(queue) <= MaxQueue
    /\ leaked \subseteq HandleKinds
    /\ lost_lines \subseteq Pins
    /\ \A t \in Threads :
          lpc[t] \in {"none", "alloc", "while", "wait", "woke_ready", "woke_idle",
                      "read", "count", "exited"}
    /\ \A h \in Hosts :
          hpc[h] \in {"idle", "start_build", "start_spawn", "start_ret", "stop_join",
                      "stop_release", "cleanup_join", "cleanup_rest"}
    /\ fault \in {"none", "raised"}
    /\ engaged \in BOOLEAN

\* no acquisition thread exists
NoLoopThread == \A t \in Threads : lpc[t] \in {"none", "exited"}

(***************************************************************************)
(* Claims                                                                  *)
(***************************************************************************)
\* C1: when stop() or cleanup() returns from a call made while Running, the
\* acquisition thread has terminated (so it increments nothing any more) and
\* every hardware handle is released: chip, line request, request
\* descriptor and epoll descriptor.
C1_StopReleasesEverything ==
    (last.op \in {"stop", "cleanup"} /\ last.arg = 1)
        => (thread_running = 0 /\ NoLoopThread /\ NoHandleOpen)

\* the part of C1 the code keeps: the thread is joined and the handles the
\* module still refers to are released
C1_HeldHandlesReleased ==
    (last.op \in {"stop", "cleanup"} /\ last.arg = 1)
        => /\ thread_running = 0
           /\ NoLoopThread
           /\ chip = "NULL" /\ request = "NULL" /\ request_fd = -1 /\ epoll_fd = -1

\* C2: when start() fails, the engine is not Running, the registry and the
\* counters are as before the call, and no handle (chip, line request, epoll
\* descriptor) is held afterwards.
C2_FailedStartKeepsNothing ==
    [][(last'.op = "start" /\ last'.val < 0)
         => /\ thread_running' = 0
            /\ IF last'.err = "start_failed"
               THEN /\ pin_offsets' = pre[last'.h].offsets
                    /\ pulse_counts' = pre[last'.h].counts
                    /\ num_registered' = pre[last'.h].num
                    /\ chip' = "NULL"
                    /\ request' = "NULL"
                    /\ epoll_fd' = -1
               ELSE UNCHANGED <<registry, handles>>]_vars

\* the part of C2 the code keeps: a failed start() leaves the engine not
\* Running and the registry and the counters as before the call
C2_FailedStartKeepsRegistry ==
    [][(last'.op = "start" /\ last'.val < 0)
         => /\ thread_running' = 0
            /\ IF last'.err = "start_failed"
               THEN /\ pin_offsets' = pre[last'.h].offsets
                    /\ pulse_counts' = pre[last'.h].counts
                    /\ num_registered' = pre[last'.h].num
               ELSE UNCHANGED <<registry, handles>>]_vars

\* every delivered event has been read and counted
Drained == queue = <<>> /\ \A t \in Threads : buf[t] = <<>>

\* C3: while Running, once the loop has drained the delivered events, the
\* count of every registered pin is exactly the number of events injected for
\* it since its last reset: each event adds 1 to the counter of its own pin
\* and to no other, none is lost and none is counted twice.
C3_DrainedCountIsExact ==
    (thread_running = 1 /\ Drained)
        => \A p \in Pins \ {-1} : find_slot(p) >= 0 => get_count(p) = injected[p]

\* C3 happens: two pins are registered, the loop has counted two events of
\* pin 27 and none of pin 17, and waits in the read for the next one
C3_Witness ==
    /\ thread_running = 1
    /\ Drained
    /\ \E t \in Threads : lpc[t] = "read"
    /\ find_slot(17) = 0
    /\ find_slot(27) = 1
    /\ injected[27] = 2
    /\ get_count(27) = 2
    /\ get_count(17) = 0

PairwiseDistinctPins(log) ==
    \A i, j \in 1 .. Len(log) : i # j => log[i].pin # log[j].pin

\* what C4 asks of a log of register calls that started on the empty registry
SlotsAsClaimed(log) ==
    /\ \A i \in 1 .. Len(log) : i <= MAX_PINS => log[i].slot \in Slots
    /\ \A i, j \in 1 .. Len(log) :
          (i # j /\ i <= MAX_PINS /\ j <= MAX_PINS) => log[i].slot # log[j].slot
    /\ \A i \in 1 .. Len(log) : i = MAX_PINS + 1 => log[i].slot = -1

\* C4: from the empty registry, register calls with pairwise distinct pin
\* identifiers return pairwise distinct slots in 0 .. MAX_PINS-1 for the first
\* MAX_PINS calls, and call MAX_PINS+1 fails with the capacity error.
C4_DistinctPinsDistinctSlots ==
    PairwiseDistinctPins(regLog) => SlotsAsClaimed(regLog)

\* the part of C4 the code keeps: it holds when -1 is not among the pins
C4_HoldsWithoutMinusOne ==
    (PairwiseDistinctPins(regLog) /\ \A i \in 1 .. Len(regLog) : regLog[i].pin # -1)
        => SlotsAsClaimed(regLog)

\* C4, its last part: a register call that fails for lack of a slot leaves
\* the registry and the counters unchanged
C4_FailedRegisterChangesNothing ==
    [][(last'.op = "register" /\ last'.val < 0) => UNCHANGED registry]_vars

\* C5: before start, register(p) for an already-registered pin p succeeds,
\* returns the slot p holds and leaves the registry, the number of used slots
\* and every counter unchanged, also when the registry is full.
C5_ReRegisterIsIdempotent ==
    [][\A p \in Pins \ {-1} :
         (last'.op = "register" /\ last'.arg = p /\ last'.err # "running"
            /\ find_slot(p) >= 0)
         => (last'.val = find_slot(p) /\ UNCHANGED registry)]_vars

\* the part of C5 the code keeps: it holds while a slot is free
C5_HoldsWhileNotFull ==
    [][\A p \in Pins \ {-1} :
         (last'.op = "register" /\ last'.arg = p /\ last'.err # "running"
            /\ find_slot(p) >= 0 /\ num_registered < MAX_PINS)
         => (last'.val = find_slot(p) /\ UNCHANGED registry)]_vars

\* C6: from the return of a successful start() until stop() or cleanup() is
\* called, every register() call fails with the already-running error and
\* leaves the registry unchanged.
C6_NoRegisterWhileEngaged ==
    [][(last'.op = "register" /\ engaged)
         => (last'.err = "running" /\ UNCHANGED registry)]_vars

\* the part of C6 the code keeps: register() fails while thread_running is set
C6_NoRegisterWhileThreadRunning ==
    [][(last'.op = "register" /\ thread_running = 1)
         => (last'.err = "running" /\ UNCHANGED registry)]_vars

\* C7: after the loop's allocation, wait or read has failed, the next call
\* that returns to the host reports the fault, and by then the loop has
\* terminated, the engine is not Running and the handles are released.
C7_FaultIsSurfaced ==
    [][(fault = "raised" /\ last'.op # "" /\ last'.op # "cleanup")
         => /\ last'.err = "acquisition_fault"
            /\ thread_running' = 0
            /\ NoLoopThread'
            /\ chip' = "NULL" /\ request' = "NULL" /\ epoll_fd' = -1]_vars

\* C8: a stop() called while Running returns.
C8_StopReturns ==
    \A h \in SeqHosts : (hpc[h] = "stop_join") ~> (hpc[h] = "idle")

\* C9: when cleanup() returns, the engine is not Running, no acquisition
\* thread exists, the registry is empty, every counter is zero (get_count
\* returns 0 for every pin) and every hardware handle is released.
C9_CleanupLeavesNothing ==
    (last.op = "cleanup")
        => /\ thread_running = 0
           /\ NoLoopThread
           /\ num_registered = 0
           /\ \A i \in Slots : pin_offsets[i] = -1 /\ pulse_counts[i] = 0
           /\ \A p \in Pins : get_count(p) = 0
           /\ NoHandleOpen

\* the part of C9 the code keeps: all but the handles leaked before the call
C9_CleanupLeavesNothingHeld ==
    (last.op = "cleanup")
        => /\ thread_running = 0
           /\ NoLoopThread
           /\ num_registered = 0
           /\ \A i \in Slots : pin_offsets[i] = -1 /\ pulse_counts[i] = 0
           /\ \A p \in Pins : get_count(p) = 0
           /\ chip = "NULL" /\ request = "NULL" /\ request_fd = -1 /\ epoll_fd = -1

\* C10: stop() leaves the engine not Running, and a stop() issued when the
\* engine is not Running changes no state of the module: registry, counters,
\* handles and thread state stay as they are.  Two stop() calls in a row
\* therefore leave the state of one.
C10_StopIsIdempotent ==
    [][(last'.op = "stop")
         => /\ thread_running' = 0
            /\ last'.val = 0
            /\ last'.arg = 0 => UNCHANGED <<registry, handles, threadv>>]_vars

\* C10 happens: stop() returned from a call made when not Running, with a
\* pin registered and counted and the handles of a failed start still held
C10_Witness ==
    /\ last.op = "stop"
    /\ last.arg = 0
    /\ num_registered > 0
    /\ \E i \in Slots : pulse_counts[i] > 0
    /\ chip = "open"

\* pin p holds a slot of the table
Registered(p) == p # -1 /\ \E i \in Slots : pin_offsets[i] = p

\* get_count returns 0 for every pin identifier that is not registered
UnregisteredReadsZero == \A p \in Pins : ~Registered(p) => get_count(p) = 0

\* C11: get_count(p) returns 0 whenever p is not registered; reset_count(p)
\* of a registered p leaves get_count(p) = 0; reset_count of an unregistered
\* pin changes the counter of no registered pin.
C11_UnregisteredZeroResetZero ==
    /\ []UnregisteredReadsZero
    /\ [][\A p \in Pins :
            (last'.op = "reset_count" /\ last'.arg = p)
            => IF Registered(p)
               THEN get_count(p)' = 0
               ELSE \A i \in Slots : pin_offsets[i] # -1 => pulse_counts'[i] = pulse_counts[i]]_vars

\* the part of C11 the code keeps: it holds for every pin identifier but -1
C11_HoldsWithoutMinusOne ==
    /\ [](\A p \in Pins \ {-1} : ~Registered(p) => get_count(p) = 0)
    /\ [][\A p \in Pins :
            (last'.op = "reset_count" /\ last'.arg = p)
            => IF Registered(p)
               THEN get_count(p)' = 0
               ELSE \A i \in Slots : pin_offsets[i] # -1 => pulse_counts'[i] = pulse_counts[i]]_vars

\* C12: the counter of a registered pin never decreases, and the pin keeps
\* its slot, in any step that is not a reset_count of that pin or a cleanup:
\* a later read of the pin is never smaller than an earlier one.
C12_MonotonicExceptReset ==
    [][\A i \in Slots :
         (/\ pin_offsets[i] # -1
          /\ last'.op # "cleanup"
          /\ ~(last'.op = "reset_count" /\ last'.arg = pin_offsets[i]))
         => (pin_offsets'[i] = pin_offsets[i] /\ pulse_counts'[i] >= pulse_counts[i])]_vars

\* C12 happens: with the engine Running and two pins registered, pin 17 is
\* read as 2 after its counter went up twice
C12_Witness ==
    /\ last.op = "get_count"
    /\ last.arg = 17
    /\ last.val = 2
    /\ thread_running = 1
    /\ num_registered = 2
    /\ injected[17] = 2

\* host h makes the first step of a start() call
StartCalled(h) ==
    /\ HostIdle(h)
    /\ \/ (last'.op = "start" /\ last'.h = h)
       \/ hpc'[h] = "start_build"

\* C13: start() with no pin registered fails at once with the
\* no-pins-registered error: no handle is opened, no thread is created, the
\* engine is not Running and the registry is untouched.
C13_StartWithoutPinsFails ==
    [][\A h \in Hosts :
         (StartCalled(h) /\ num_registered = 0)
         => /\ last'.op = "start"
            /\ last'.err = "no_pins"
            /\ thread_running' = 0
            /\ NoLoopThread'
            /\ UNCHANGED <<registry, handles, threadv>>]_vars

\* C13 happens: start() has just failed for lack of pins, on a registry that
\* a cleanup() emptied while handles lost before it were still open
C13_Witness ==
    /\ last.op = "start"
    /\ last.err = "no_pins"
    /\ num_registered = 0
    /\ leaked # {}

\* C20: start() called while the engine is Running (thread_running set)
\* returns success at once: no handle is opened or replaced, no thread is
\* created, and the registry and the counters are not changed.
C20_StartWhileRunningIsNoOp ==
    [][\A h \in Hosts :
         (StartCalled(h) /\ thread_running # 0)
         => /\ last' = Step("start", h, 1, 0, "")
            /\ UNCHANGED <<registry, handles, threadv>>]_vars

\* C20 happens: start() returned from a call made while Running, the loop
\* being in the middle of counting a buffer of events
C20_Witness ==
    /\ last = Step("start", 1, 1, 0, "")
    /\ thread_running = 1
    /\ request = "open"
    /\ \E t \in Threads : lpc[t] = "count" /\ buf[t] # <<>>

StartPcs == {"start_build", "start_spawn", "start_ret"}
StopPcs == {"stop_join", "stop_release"}

\* host h takes a step of a start() call
StartStep(h) ==
    \/ StartCalled(h)
    \/ (hpc[h] \in StartPcs /\ hpc'[h] # hpc[h])

\* host h takes a step of a stop() call
StopStep(h) ==
    \/ (HostIdle(h) /\ last'.op = "stop" /\ last'.h = h)
    \/ (HostIdle(h) /\ hpc'[h] \in StopPcs)
    \/ (hpc[h] \in StopPcs /\ hpc'[h] # hpc[h])

\* C17: no step of start(), successful or failed, and no step of stop()
\* changes the pin-to-slot table or the number of registered pins, and no
\* step of stop() changes a counter; when stop() returns the registry and
\* the counters are what they were on its entry plus what the loop counted
\* until it was joined.
C17_OnlyCleanupClearsRegistry ==
    [][\A h \in Hosts :
         /\ (StartStep(h) \/ StopStep(h)) => UNCHANGED <<pin_offsets, num_registered>>
         /\ StopStep(h) => UNCHANGED pulse_counts
         /\ (StopStep(h) /\ hpc'[h] = "idle" /\ last'.arg = 1)
              => /\ pin_offsets' = pre[h].offsets
                 /\ num_registered' = pre[h].num
                 /\ \A i \in Slots : pulse_counts'[i] >= pre[h].counts[i]]_vars

\* C17 happens: stop() returned from a call made while Running, both pins
\* are still registered and the count of pin 27 is still readable
C17_Witness ==
    /\ last.op = "stop"
    /\ last.arg = 1
    /\ find_slot(17) = 0
    /\ find_slot(27) = 1
    /\ num_registered = 2
    /\ get_count(27) = 2

\* the slots that hold a pin
Assigned == {i \in Slots : pin_offsets[i] # -1}

\* the assigned slots are exactly 0 .. num_registered-1
AssignedIsPrefix ==
    /\ num_registered = Cardinality(Assigned)
    /\ Assigned = {i \in Slots : i < num_registered}

\* C19: in every state the assigned slots are the prefix
\* 0 .. num_registered-1 of the table, and the line request of a
\* build_request that succeeds is made for exactly the pins that are
\* registered.
C19_AssignedSlotsArePrefix ==
    /\ []AssignedIsPrefix
    /\ [][\A h \in Hosts :
            (hpc[h] = "start_build" /\ hpc'[h] = "start_spawn")
            => (request' = "open" /\ req_lines' = {pin_offsets[i] : i \in Assigned})]_vars

\* C19 happens: pin 17 alone is registered, in slot 0, and start() has made
\* the line request for it
C19_Witness ==
    /\ num_registered = 1
    /\ pin_offsets[0] = 17
    /\ pin_offsets[1] = -1
    /\ \E h \in Hosts : hpc[h] = "start_spawn"
    /\ req_lines = {17}

\* what C16 asks of the register calls made since the last teardown: a pin
\* that was given a slot is given the same slot by every later register, and
\* no later register of another pin is given that slot
SlotsAreStable(log) ==
    \A i, j \in 1 .. Len(log) :
        (i < j /\ log[i].slot >= 0)
        => IF log[j].pin = log[i].pin
           THEN log[j].slot = log[i].slot
           ELSE log[j].slot # log[i].slot

\* every pin that a register call was given a slot for is found in that slot
LookupsAgree(log) ==
    \A i \in 1 .. Len(log) : log[i].slot >= 0 => find_slot(log[i].pin) = log[i].slot

\* the assigned entries of the table hold pairwise distinct pins
AssignedPinsDistinct ==
    \A i, j \in Slots : (i # j /\ pin_offsets[i] # -1) => pin_offsets[i] # pin_offsets[j]

\* C16: between teardowns the assigned entries hold pairwise distinct pins,
\* and once register(p) has returned slot s every later lookup or register
\* of p yields s and no later register of another pin returns s.
C16_SlotsUniqueAndStable ==
    /\ AssignedPinsDistinct
    /\ SlotsAreStable(regLog)
    /\ LookupsAgree(regLog)

\* the part of C16 the code keeps: the pins of the table are distinct, and
\* the slots are stable for pins other than -1 while a slot is free
C16_HoldsWithoutMinusOneWhileNotFull ==
    /\ AssignedPinsDistinct
    /\ LET log == regLog
       IN  \A i, j \in 1 .. Len(log) :
              (i < j /\ log[i].slot >= 0 /\ log[i].pin # -1 /\ log[j].pin # -1)
              => IF log[j].pin = log[i].pin
                 THEN (log[j].slot = log[i].slot \/ (log[j].slot = -1 /\ j > MAX_PINS))
                 ELSE log[j].slot # log[i].slot
    /\ \A i \in 1 .. Len(regLog) :
          (regLog[i].slot >= 0 /\ regLog[i].pin # -1)
          => find_slot(regLog[i].pin) = regLog[i].slot

\* the loop counts one event: the counter of its pin goes up by exactly one
\* and no other counter changes
IncrementIsAtomic ==
    \A t \in Threads :
        (lpc[t] = "count" /\ buf'[t] # buf[t])
        => \A i \in Slots :
              pulse_counts'[i] = pulse_counts[i]
                                 + (IF pin_offsets[i] = Head(buf[t]) THEN 1 ELSE 0)

\* reset_count(p) stores 0 in the counter of p and changes no other counter
ResetIsAtomic ==
    \A p \in Pins \ {-1} :
        (last'.op = "reset_count" /\ last'.arg = p /\ Registered(p))
        => \A i \in Slots :
              pulse_counts'[i] = IF pin_offsets[i] = p THEN 0 ELSE pulse_counts[i]

\* the counter of a registered pin plus its events not yet counted is the
\* number of its events and bumps that were not ordered before its last reset
CountPlusPendingIsInjected ==
    \A p \in Pins \ {-1} : Registered(p) => get_count(p) + Pending(p) = injected[p]

\* C18: with reset_count(p) racing against the loop's increments, each
\* increment adds exactly 1 once, the reset stores 0, and the counter holds
\* exactly the increments that took effect after the reset: the events not
\* yet counted when the reset ran and those delivered later, none of them
\* lost or doubled.
C18_ResetRaceLosesOnlyEarlier ==
    /\ []CountPlusPendingIsInjected
    /\ [][IncrementIsAtomic /\ ResetIsAtomic]_vars

\* C18 happens: reset_count(17) has just run while the loop is in the middle
\* of counting a buffer that still holds an event of pin 17
C18_Witness ==
    /\ last.op = "reset_count"
    /\ last.arg = 17
    /\ thread_running = 1
    /\ get_count(17) = 0
    /\ \E t \in Threads : lpc[t] = "count" /\ CountIn(17, buf[t]) > 0
    /\ injected[17] = Pending(17)

(***************************************************************************)
(* Overlapping host calls: two host threads call register_pin, start, stop *)
(* and cleanup.  py_start, py_stop and py_cleanup release the interpreter  *)
(* lock (lines 173, 195, 252), so a call of the other host thread can run  *)
(* between their steps.                                                    *)
(***************************************************************************)
\* the pin identifiers the overlapping calls register
MTPins == {17}

\* one step of host thread h among overlapping calls
MTHostNext(h) ==
    \/ \E pin \in MTPins : Register(h, pin)
    \/ StartEnter(h)
    \/ StartBuild(h)
    \/ StartSpawn(h)
    \/ StartSpawnFail(h)
    \/ StartReturn(h)
    \/ StopEnter(h)
    \/ StopJoin(h)
    \/ StopRelease(h)
    \/ CleanupEnter(h)
    \/ CleanupJoin(h)
    \/ CleanupFinish(h)

\* one step of acquisition thread t when no edge arrives and no call of the
\* loop fails: it polls with the timeout until it sees thread_running cleared
MTLoopNext(t) ==
    \/ LoopAlloc(t)
    \/ LoopWhile(t)
    \/ LoopWaitTimeout(t)
    \/ LoopCheck(t)

MTNext ==
    \/ \E h \in Hosts : MTHostNext(h)
    \/ \E t \in Threads : MTLoopNext(t)

SpecMT == Init /\ [][MTNext]_vars

\* acquisition thread t exists and has not finished
LoopAlive(t) == lpc[t] \notin {"none", "exited"}

AtMostOneLoopThread == Cardinality({t \in Threads : LoopAlive(t)}) <= 1

\* not both the request the module refers to and a lost one are held
AtMostOneRequest == ~(request = "open" /\ lost_lines # {})

\* C14: at every moment at most one acquisition thread exists and at most
\* one line request is held, also when start() calls of two host threads
\* overlap.
C14_OneThreadOneRequest == AtMostOneLoopThread /\ AtMostOneRequest

\* C15: while an acquisition thread exists that has not finished, no step
\* releases or replaces the line request, its descriptor or the epoll
\* descriptor: they are released only after the thread is joined.
C15_NoReleaseUnderTheLoop ==
    [][(\E t \in Threads : LoopAlive(t))
         => UNCHANGED <<request, request_fd, epoll_fd, epoll_watch>>]_vars

====
